---------------------------- MODULE Spec2Model ----------------------------
(***************************************************************************)
(* Model of the mandarin-to-pinyin library (src/src/lib.rs).               *)
(*                                                                         *)
(* Representation.  A Rust char is its Unicode scalar value (a natural     *)
(* number); a String / &str is the sequence of its chars; a byte buffer    *)
(* (&[u8]) is a sequence of naturals 0..255.  Option<T> is a record        *)
(* [some |-> FALSE] or [some |-> TRUE, val |-> v]; Result<T, E> is         *)
(* [ok |-> TRUE, val |-> v] or [ok |-> FALSE, err |-> e], where e is the   *)
(* error text of the source.  A HashMap is a function on its key set.      *)
(*                                                                         *)
(* Three specifications share the module:                                  *)
(*   Spec      the Mapping Store and its callers, one call at a time       *)
(*   SpecConc  init_map and lookup_unicodes calls racing on the OnceLock   *)
(*   SpecTone  the two notation transcoders applied to token batches       *)
(***************************************************************************)
EXTENDS Integers, Sequences, FiniteSets, TLC

VARIABLES
    default_data,       \* cargo feature "default-data" of the build (lib.rs:107,112)
    UNICODE_TO_PINYIN,  \* static OnceLock<HashMap<u32, Vec<String>>> (lib.rs:6)
    ret,                \* Spec: the last call made, its arguments and what it returned
    th,                 \* SpecConc: the threads, each with its position and locals
    tpc, tin, tcur      \* SpecTone: calls made so far, the first input, the current value

vars == <<default_data, UNICODE_TO_PINYIN, ret, th, tpc, tin, tcur>>

----------------------------------------------------------------------------
(* Bounds of the model.                                                    *)

\* longest key batch / text handed to a lookup or to to_pinyin_string
MaxKeys == 3
\* longest token of digits and plain letters handed to the transcoders
MaxTokLen == 4
\* longest token of letters and diacritic characters handed to the transcoders
MaxDiaLen == 2
\* init_map threads racing in SpecConc
NInit == 2

----------------------------------------------------------------------------
(* Generic helpers.                                                        *)

None == [some |-> FALSE]
Some(v) == [some |-> TRUE, val |-> v]
Ok(v) == [ok |-> TRUE, val |-> v]
Err(e) == [ok |-> FALSE, err |-> e]

\* the ? operator on a Result: the error r itself, or F of the value of r
Try(r, F(_)) == IF r.ok THEN F(r.val) ELSE r

Range(s) == {s[i] : i \in 1..Len(s)}

\* all sequences over S of length at most n
SeqUpTo(S, n) == UNION {[1..k -> S] : k \in 0..n}

\* HashMap::get
Get(map, key) == IF key \in DOMAIN map THEN Some(map[key]) ELSE None

\* HashMap::insert (an existing key is overwritten)
Insert(map, key, value) ==
    [x \in (DOMAIN map) \cup {key} |-> IF x = key THEN value ELSE map[x]]

\* the empty HashMap
EmptyMap == [x \in {} |-> None]

\* char::is_ascii_digit: '0'..='9'
is_ascii_digit(c) == c \in 48..57

----------------------------------------------------------------------------
(* Diacritic Table (lib.rs:8-76).                                          *)

\* static DIACRITIC_TO_LETTER: phf::Map<char, &'static str>
DIACRITIC_TO_LETTER ==
    (257 :> <<97, 49>>) @@      \* 'ā' U+0101 => "a1"
    (225 :> <<97, 50>>) @@      \* 'á' U+00E1 => "a2"
    (462 :> <<97, 51>>) @@      \* 'ǎ' U+01CE => "a3"
    (224 :> <<97, 52>>) @@      \* 'à' U+00E0 => "a4"
    (275 :> <<101, 49>>) @@     \* 'ē' U+0113 => "e1"
    (233 :> <<101, 50>>) @@     \* 'é' U+00E9 => "e2"
    (283 :> <<101, 51>>) @@     \* 'ě' U+011B => "e3"
    (232 :> <<101, 52>>) @@     \* 'è' U+00E8 => "e4"
    (299 :> <<105, 49>>) @@     \* 'ī' U+012B => "i1"
    (237 :> <<105, 50>>) @@     \* 'í' U+00ED => "i2"
    (464 :> <<105, 51>>) @@     \* 'ǐ' U+01D0 => "i3"
    (236 :> <<105, 52>>) @@     \* 'ì' U+00EC => "i4"
    (333 :> <<111, 49>>) @@     \* 'ō' U+014D => "o1"
    (243 :> <<111, 50>>) @@     \* 'ó' U+00F3 => "o2"
    (466 :> <<111, 51>>) @@     \* 'ǒ' U+01D2 => "o3"
    (242 :> <<111, 52>>) @@     \* 'ò' U+00F2 => "o4"
    (470 :> <<118, 49>>) @@     \* 'ǖ' U+01D6 => "v1"
    (472 :> <<118, 50>>) @@     \* 'ǘ' U+01D8 => "v2"
    (474 :> <<118, 51>>) @@     \* 'ǚ' U+01DA => "v3"
    (476 :> <<118, 52>>) @@     \* 'ǜ' U+01DC => "v4"
    (363 :> <<117, 49>>) @@     \* 'ū' U+016B => "u1"
    (250 :> <<117, 50>>) @@     \* 'ú' U+00FA => "u2"
    (468 :> <<117, 51>>) @@     \* 'ǔ' U+01D4 => "u3"
    (249 :> <<117, 52>>) @@     \* 'ù' U+00F9 => "u4"
    (7743 :> <<109, 50>>) @@    \* 'ḿ' U+1E3F => "m2"
    (324 :> <<110, 50>>) @@     \* 'ń' U+0144 => "n2"
    (328 :> <<110, 51>>) @@     \* 'ň' U+0148 => "n3"
    (505 :> <<110, 52>>)        \* 'ǹ' U+01F9 => "n4"

\* static LETTER_TO_DIACRITIC: phf::Map<&'static str, char>
LETTER_TO_DIACRITIC ==
    (<<97, 49>> :> 257) @@      \* "a1" => 'ā'
    (<<97, 50>> :> 225) @@      \* "a2" => 'á'
    (<<97, 51>> :> 462) @@      \* "a3" => 'ǎ'
    (<<97, 52>> :> 224) @@      \* "a4" => 'à'
    (<<101, 49>> :> 275) @@     \* "e1" => 'ē'
    (<<101, 50>> :> 233) @@     \* "e2" => 'é'
    (<<101, 51>> :> 283) @@     \* "e3" => 'ě'
    (<<101, 52>> :> 232) @@     \* "e4" => 'è'
    (<<105, 49>> :> 299) @@     \* "i1" => 'ī'
    (<<105, 50>> :> 237) @@     \* "i2" => 'í'
    (<<105, 51>> :> 464) @@     \* "i3" => 'ǐ'
    (<<105, 52>> :> 236) @@     \* "i4" => 'ì'
    (<<111, 49>> :> 333) @@     \* "o1" => 'ō'
    (<<111, 50>> :> 243) @@     \* "o2" => 'ó'
    (<<111, 51>> :> 466) @@     \* "o3" => 'ǒ'
    (<<111, 52>> :> 242) @@     \* "o4" => 'ò'
    (<<252, 49>> :> 470) @@     \* "ü1" => 'ǖ'   ('ü' is U+00FC)
    (<<252, 50>> :> 472) @@     \* "ü2" => 'ǘ'
    (<<252, 51>> :> 474) @@     \* "ü3" => 'ǚ'
    (<<252, 52>> :> 476) @@     \* "ü4" => 'ǜ'
    (<<121, 117, 49>> :> 470) @@    \* "yu1" => 'ǖ'
    (<<121, 117, 50>> :> 472) @@    \* "yu2" => 'ǘ'
    (<<121, 117, 51>> :> 474) @@    \* "yu3" => 'ǚ'
    (<<121, 117, 52>> :> 476) @@    \* "yu4" => 'ǜ'
    (<<118, 49>> :> 470) @@     \* "v1" => 'ǖ'
    (<<118, 50>> :> 472) @@     \* "v2" => 'ǘ'
    (<<118, 51>> :> 474) @@     \* "v3" => 'ǚ'
    (<<118, 52>> :> 476) @@     \* "v4" => 'ǜ'
    (<<117, 49>> :> 363) @@     \* "u1" => 'ū'
    (<<117, 50>> :> 250) @@     \* "u2" => 'ú'
    (<<117, 51>> :> 468) @@     \* "u3" => 'ǔ'
    (<<117, 52>> :> 249) @@     \* "u4" => 'ù'
    (<<109, 50>> :> 7743) @@    \* "m2" => 'ḿ'
    (<<110, 50>> :> 324) @@     \* "n2" => 'ń'
    (<<110, 51>> :> 328) @@     \* "n3" => 'ň'
    (<<110, 52>> :> 505)        \* "n4" => 'ǹ'

----------------------------------------------------------------------------
(* Notation Transcoder (lib.rs:239-299).                                   *)

\* a conversion that writes tone 5 for every diacritic
replace_diacritic_char_neutral(c) ==
    IF c \in DOMAIN DIACRITIC_TO_LETTER
    THEN <<DIACRITIC_TO_LETTER[c][1], 53>>
    ELSE <<c>>

\* a conversion that drops the tone: the base letter only
replace_diacritic_char_toneless(c) ==
    IF c \in DOMAIN DIACRITIC_TO_LETTER
    THEN <<DIACRITIC_TO_LETTER[c][1]>>
    ELSE <<c>>

\* the body of the for loop of replace_diacritic, for one char c
replace_diacritic_char(c) ==
    IF c \in DOMAIN DIACRITIC_TO_LETTER
    THEN DIACRITIC_TO_LETTER[c]     \* result.push_str(replacement)
    ELSE <<c>>                      \* result.push(c)

RECURSIVE replace_diacritic(_)
\* fn replace_diacritic(pinyin: &str) -> String: chars left to right
replace_diacritic(pinyin) ==
    IF pinyin = <<>> THEN <<>>
    ELSE replace_diacritic_char(Head(pinyin)) \o replace_diacritic(Tail(pinyin))

\* pinyins.iter().map(replace_diacritic).collect()
diacritic_to_tone_plus_number(pinyins) ==
    [i \in 1..Len(pinyins) |-> replace_diacritic(pinyins[i])]

\* a 3-char probe that is never tried, so the 2-char key is taken first
probe3_never(chars, current_char) == None

\* the 3-character probe of replace_numbered_pinyin: chars is what is left
\* after current_char was popped
probe3(chars, current_char) ==
    IF Len(chars) >= 2
    THEN Get(LETTER_TO_DIACRITIC,
             <<chars[Len(chars) - 1], chars[Len(chars)], current_char>>)
    ELSE None

\* a 2-char probe that is never tried
probe2_never(chars, current_char) == None

\* the 2-character probe of replace_numbered_pinyin
probe2(chars, current_char) ==
    IF Len(chars) >= 1
    THEN Get(LETTER_TO_DIACRITIC, <<chars[Len(chars)], current_char>>)
    ELSE None

\* one iteration of the while loop, after current_char was popped from chars:
\* the char put at the front of result and the number of further chars consumed
numbered_step(chars, current_char) ==
    IF is_ascii_digit(current_char) /\ probe3(chars, current_char).some
    THEN [out |-> probe3(chars, current_char).val, used |-> 2]
    ELSE IF is_ascii_digit(current_char) /\ probe2(chars, current_char).some
    THEN [out |-> probe2(chars, current_char).val, used |-> 1]
    ELSE [out |-> current_char, used |-> 0]

\* the while loop of replace_numbered_pinyin, from a loop state: the stack
\* chars and the result built so far
numbered_loop[s \in [chars : Seq(Nat), result : Seq(Nat)]] ==
    IF s.chars = <<>> THEN s.result
    ELSE LET current_char == s.chars[Len(s.chars)]               \* chars.pop()
             rest == SubSeq(s.chars, 1, Len(s.chars) - 1)
             st == numbered_step(rest, current_char)
         IN numbered_loop[[chars |-> SubSeq(rest, 1, Len(rest) - st.used),
                           result |-> <<st.out>> \o s.result]]  \* result.insert(0, ..)

\* fn replace_numbered_pinyin(pinyin: &str) -> String
replace_numbered_pinyin(pinyin) == numbered_loop[[chars |-> pinyin, result |-> <<>>]]

\* pinyins.iter().map(replace_numbered_pinyin).collect()
tone_plus_number_to_diacritic(pinyins) ==
    [i \in 1..Len(pinyins) |-> replace_numbered_pinyin(pinyins[i])]

----------------------------------------------------------------------------
(* The binary mapping resource: bincode 2, config::standard() (little       *)
(* endian, variable-length integers, no limit), as load_from_bytes         *)
(* (lib.rs:90-94) and save_to_vec (lib.rs:302-321) use it.                 *)

\* largest Unicode scalar value, 0x10FFFF (lib.rs:308)
MaxCodePoint == 1114111

\* a Rust char: a Unicode scalar value (no surrogate U+D800..U+DFFF)
IsChar(n) == n \in 0..MaxCodePoint /\ n \notin 55296..57343

RECURSIVE LE(_, _)
\* v as n little-endian bytes
LE(v, n) == IF n = 0 THEN <<>> ELSE <<v % 256>> \o LE(v \div 256, n - 1)

RECURSIVE FromLE(_, _, _)
\* the value of the n little-endian bytes of b from position pos
FromLE(b, pos, n) ==
    IF n = 0 THEN 0 ELSE b[pos] + 256 * FromLE(b, pos + 1, n - 1)

\* bincode varint encoding of an unsigned integer
EncodeVarint(v) ==
    IF v < 251 THEN <<v>>
    ELSE IF v < 65536 THEN <<251>> \o LE(v, 2)
    ELSE IF v \div 65536 < 65536 THEN <<252>> \o LE(v, 4)
    ELSE <<253>> \o LE(v, 8)

\* bincode varint decoding at position pos of b, for a type of `width` bytes
\* (4: u32, 8: usize/u64): a marker for a wider type is InvalidIntegerType
DecodeVarint(b, pos, width) ==
    IF pos > Len(b) THEN Err("UnexpectedEnd")
    ELSE LET m == b[pos]
             n == IF m = 251 THEN 2 ELSE IF m = 252 THEN 4 ELSE 8
         IN IF m < 251 THEN Ok([val |-> m, pos |-> pos + 1])
            ELSE IF m > 253 \/ n > width THEN Err("InvalidIntegerType")
            ELSE IF pos + n > Len(b) THEN Err("UnexpectedEnd")
            ELSE Ok([val |-> FromLE(b, pos + 1, n), pos |-> pos + 1 + n])

\* UTF-8 encoding of one char
Utf8EncodeChar(c) ==
    IF c < 128 THEN <<c>>
    ELSE IF c < 2048 THEN <<192 + (c \div 64), 128 + (c % 64)>>
    ELSE IF c < 65536
         THEN <<224 + (c \div 4096), 128 + ((c \div 64) % 64), 128 + (c % 64)>>
    ELSE <<240 + (c \div 262144), 128 + ((c \div 4096) % 64),
           128 + ((c \div 64) % 64), 128 + (c % 64)>>

RECURSIVE Utf8Encode(_)
\* the bytes of a String
Utf8Encode(str) ==
    IF str = <<>> THEN <<>> ELSE Utf8EncodeChar(Head(str)) \o Utf8Encode(Tail(str))

\* a UTF-8 continuation byte
IsCont(x) == x \in 128..191

\* the length of the UTF-8 sequence that byte b0 starts; 0 when it starts none
Utf8Len(b0) ==
    IF b0 < 128 THEN 1
    ELSE IF b0 \in 194..223 THEN 2
    ELSE IF b0 \in 224..239 THEN 3
    ELSE IF b0 \in 240..244 THEN 4
    ELSE 0

\* the scalar value that the n bytes of bs from i encode
Utf8Value(bs, i, n) ==
    IF n = 1 THEN bs[i]
    ELSE IF n = 2 THEN (bs[i] - 192) * 64 + (bs[i + 1] - 128)
    ELSE IF n = 3
         THEN (bs[i] - 224) * 4096 + (bs[i + 1] - 128) * 64 + (bs[i + 2] - 128)
    ELSE (bs[i] - 240) * 262144 + (bs[i + 1] - 128) * 4096
         + (bs[i + 2] - 128) * 64 + (bs[i + 3] - 128)

\* the n bytes of bs from i are the UTF-8 sequence of a char: all there, the
\* followers continuation bytes, the shortest form, a scalar value
Utf8Valid(bs, i, n) ==
    /\ n > 0
    /\ i + n - 1 <= Len(bs)
    /\ \A j \in 1..(n - 1) : IsCont(bs[i + j])
    /\ ~(n = 3 /\ Utf8Value(bs, i, n) < 2048)
    /\ ~(n = 4 /\ Utf8Value(bs, i, n) < 65536)
    /\ IsChar(Utf8Value(bs, i, n))

\* String::from_utf8: the chars of a byte sequence, or the Utf8 error; dec
\* reads the char at byte i, acc holding the chars read so far
Utf8Decode(bs) ==
    LET dec[i \in Nat, acc \in Seq(Nat)] ==
            IF i > Len(bs) THEN Ok(acc)
            ELSE IF ~Utf8Valid(bs, i, Utf8Len(bs[i])) THEN Err("Utf8")
            ELSE dec[i + Utf8Len(bs[i]),
                     Append(acc, Utf8Value(bs, i, Utf8Len(bs[i])))]
    IN dec[1, <<>>]

\* encode of a String: its byte length, then its bytes
EncodeString(str) == EncodeVarint(Len(Utf8Encode(str))) \o Utf8Encode(str)

RECURSIVE EncodeStrings(_)
EncodeStrings(v) ==
    IF v = <<>> THEN <<>> ELSE EncodeString(Head(v)) \o EncodeStrings(Tail(v))

RECURSIVE EncodeEntries(_)
\* the (key, value) pairs of a HashMap<u32, Vec<String>> in iteration order
EncodeEntries(entries) ==
    IF entries = <<>> THEN <<>>
    ELSE EncodeVarint(Head(entries)[1])
         \o EncodeVarint(Len(Head(entries)[2])) \o EncodeStrings(Head(entries)[2])
         \o EncodeEntries(Tail(entries))

\* bincode::encode_to_vec(&UnicodeMapping { mappings }, standard()); entries is
\* the map as the sequence of its (key, value) pairs in iteration order
encode_to_vec(entries) == EncodeVarint(Len(entries)) \o EncodeEntries(entries)

\* the filter_map of save_to_vec: pairs with k <= 0x10FFFF are kept
FilterInRange(entries) == SelectSeq(entries, LAMBDA e : e[1] <= MaxCodePoint)

\* pub fn save_to_vec(pinyin_map) -> Result<Vec<u8>, _>
save_to_vec(entries) == Ok(encode_to_vec(FilterInRange(entries)))

\* the n bytes of b from start as a String, and the position after them
DecodeStringBytes(b, start, n) ==
    IF start + n - 1 > Len(b) THEN Err("UnexpectedEnd")
    ELSE Try(Utf8Decode(SubSeq(b, start, start + n - 1)),
             LAMBDA str : Ok([val |-> str, pos |-> start + n]))

\* decode of a String at pos: its byte length, then its bytes
DecodeString(b, pos) ==
    Try(DecodeVarint(b, pos, 8), LAMBDA len : DecodeStringBytes(b, len.pos, len.val))

\* decode of a Vec<String> at pos: its length, then ds reads k more Strings
\* at p, acc holding those read so far
DecodeVec(b, pos) ==
    LET ds[p \in Nat, k \in Nat, acc \in Seq(Seq(Nat))] ==
            IF k = 0 THEN Ok([val |-> acc, pos |-> p])
            ELSE Try(DecodeString(b, p),
                     LAMBDA str : ds[str.pos, k - 1, Append(acc, str.val)])
    IN Try(DecodeVarint(b, pos, 8), LAMBDA len : ds[len.pos, len.val, <<>>])

\* the HashMap built by inserting the (key, value) pairs of entries in order:
\* the last pair of a key is the one kept
FromEntries(entries) ==
    [k \in {entries[i][1] : i \in 1..Len(entries)} |->
        entries[CHOOSE i \in 1..Len(entries) :
                    /\ entries[i][1] = k
                    /\ \A j \in (i + 1)..Len(entries) : entries[j][1] /= k][2]]

\* decode of the n (u32, Vec<String>) pairs of the HashMap at pos: de reads k
\* more pairs at p, acc holding those read so far
DecodeEntries(b, pos, n) ==
    LET de[p \in Nat, k \in Nat, acc \in Seq(Nat \X Seq(Seq(Nat)))] ==
            IF k = 0 THEN Ok([val |-> FromEntries(acc), pos |-> p])
            ELSE Try(DecodeVarint(b, p, 4), LAMBDA key :
                 Try(DecodeVec(b, key.pos), LAMBDA value :
                     de[value.pos, k - 1, Append(acc, <<key.val, value.val>>)]))
    IN de[pos, n, <<>>]

\* bincode::decode_from_slice::<UnicodeMapping>(bytes, standard()): the struct
\* and the number of bytes read (bytes after them are not looked at)
decode_from_slice(bytes) ==
    Try(DecodeVarint(bytes, 1, 8), LAMBDA len :
    Try(DecodeEntries(bytes, len.pos, len.val), LAMBDA m :
        Ok([val |-> [mappings |-> m.val], pos |-> m.pos - 1])))

\* pub fn load_from_bytes(bytes: &[u8]) -> Result<UnicodeMapping, _>
load_from_bytes(bytes) ==
    Try(decode_from_slice(bytes), LAMBDA decoded : Ok(decoded.val))

----------------------------------------------------------------------------
(* Mapping Store (lib.rs:6, 96-123).                                       *)

\* the error texts of the source
NotInitialized == "UNICODE_TO_PINYIN not initialized. Call init_map first."
AlreadyInitialized == "failed to set mappings in OneLock"
MissingSource == "bytes is required but None was provided"
\* the DecodeError kinds of bincode that load_from_bytes passes on
MalformedResource == {"UnexpectedEnd", "InvalidIntegerType", "Utf8"}

\* data/Mandarin.dat as load_pinyin_map reads it, cut to two lines:
\* 4F60 -> "nǐ", 597D -> "hǎo hào"
DefaultEntries ==
    << <<20320, << <<110, 464>> >> >>,
       <<22909, << <<104, 462, 111>>, <<104, 224, 111>> >> >> >>

\* include_bytes!("../bincode/unicode-to-pinyin.bin"): what main.rs writes
\* there, save_to_vec(load_pinyin_map("data/Mandarin.dat"))
DefaultBytes == save_to_vec(DefaultEntries).val

\* pub fn load_default() -> Result<UnicodeMapping, _>
load_default == load_from_bytes(DefaultBytes)

\* OnceLock::get
OnceLock_get(cell) == cell

\* OnceLock::set as a plain store would do it: the cell is always written
OnceLock_set_overwrite(cell, value) == [cell |-> Some(value), res |-> Ok(<<>>)]

\* OnceLock::set: Ok(()) and the cell filled when it was empty, Err(value) and
\* the cell as it was otherwise
OnceLock_set(cell, value) ==
    IF cell.some THEN [cell |-> cell, res |-> Err(value)]
    ELSE [cell |-> Some(value), res |-> Ok(<<>>)]

\* the first half of init_map (lib.rs:105-116): the mapping to install
init_map_load(feature, _bytes) ==
    IF feature THEN load_default
    ELSE IF ~_bytes.some THEN Err(MissingSource)      \* _bytes.ok_or(..)?
    ELSE load_from_bytes(_bytes.val)

\* the second half of init_map with the result of set thrown away
init_map_set_ignored(cell, unicode_mapping) ==
    IF ~unicode_mapping.ok THEN [cell |-> cell, res |-> unicode_mapping]
    ELSE [cell |-> OnceLock_set(cell, unicode_mapping.val.mappings).cell,
          res |-> Ok(<<>>)]

\* the second half of init_map (lib.rs:118-122), with what the first half
\* gave: the cell after the call and the result
init_map_set(cell, unicode_mapping) ==
    IF ~unicode_mapping.ok THEN [cell |-> cell, res |-> unicode_mapping]    \* ?
    ELSE [cell |-> OnceLock_set(cell, unicode_mapping.val.mappings).cell,
          res |-> IF OnceLock_set(cell, unicode_mapping.val.mappings).res.ok
                  THEN Ok(<<>>)
                  ELSE Err(AlreadyInitialized)]                             \* map_err

\* pub fn init_map(_bytes: Option<&[u8]>) -> Result<(), _>, in a build with
\* (feature) or without the default-data feature: the cell after the call
\* and the result
init_map(feature, cell, _bytes) == init_map_set(cell, init_map_load(feature, _bytes))

----------------------------------------------------------------------------
(* Lookup Service (lib.rs:125-220).                                        *)

\* one iteration of the loop of lookup_unicodes / lookup_chars on key
lookup_loop_step(map, acc, key) ==
    LET value == Get(map, key)
    IN [map |-> Insert(acc.map, key, value), vec |-> Append(acc.vec, value)]

RECURSIVE lookup_loop(_, _, _)
\* the for loop of lookup_unicodes / lookup_chars over keys
lookup_loop(map, acc, keys) ==
    IF keys = <<>> THEN acc
    ELSE lookup_loop(map, lookup_loop_step(map, acc, Head(keys)), Tail(keys))

RECURSIVE collect_map(_, _)
\* collect() of an iterator of (key, value) pairs into a HashMap
collect_map(pairs, acc) ==
    IF pairs = <<>> THEN acc
    ELSE collect_map(Tail(pairs), Insert(acc, Head(pairs)[1], Head(pairs)[2]))

\* key as u32, for a char: the scalar value that stands for the char here
as_u32(key) == key

\* lookup_unicodes_map keeping only the keys that have an entry (a filter_map)
lookup_unicodes_map_present(cell, keys) ==
    IF ~cell.some THEN Err(NotInitialized)
    ELSE Ok([k \in Range(keys) \cap DOMAIN cell.val |-> Some(cell.val[k])])

\* pub fn lookup_unicodes_map(keys: &[u32])
lookup_unicodes_map(cell, keys) ==
    LET map == OnceLock_get(cell)
    IN IF ~map.some THEN Err(NotInitialized)
       ELSE Ok(collect_map([i \in 1..Len(keys) |-> <<keys[i], Get(map.val, keys[i])>>],
                           EmptyMap))

\* pub fn lookup_unicodes_vec(keys: &[u32])
lookup_unicodes_vec(cell, keys) ==
    LET map == OnceLock_get(cell)
    IN IF ~map.some THEN Err(NotInitialized)
       ELSE Ok([i \in 1..Len(keys) |-> Get(map.val, keys[i])])

\* pub fn lookup_unicodes(keys: &[u32]) -> Result<LookupResult<u32>, String>
lookup_unicodes(cell, keys) ==
    LET map == OnceLock_get(cell)
    IN IF ~map.some THEN Err(NotInitialized)
       ELSE Ok(lookup_loop(map.val, [map |-> EmptyMap, vec |-> <<>>], keys))

\* pub fn lookup_chars_map(keys: &[char])
lookup_chars_map(cell, keys) ==
    LET map == OnceLock_get(cell)
    IN IF ~map.some THEN Err(NotInitialized)
       ELSE Ok(collect_map([i \in 1..Len(keys) |->
                               <<keys[i], Get(map.val, as_u32(keys[i]))>>],
                           EmptyMap))

\* lookup_chars_vec with an empty map standing in for a store not yet set
lookup_chars_vec_unchecked(cell, keys) ==
    IF ~cell.some THEN Ok([i \in 1..Len(keys) |-> None])
    ELSE Ok([i \in 1..Len(keys) |-> Get(cell.val, as_u32(keys[i]))])

\* pub fn lookup_chars_vec(keys: &[char])
lookup_chars_vec(cell, keys) ==
    LET map == OnceLock_get(cell)
    IN IF ~map.some THEN Err(NotInitialized)
       ELSE Ok([i \in 1..Len(keys) |-> Get(map.val, as_u32(keys[i]))])

\* pub fn lookup_chars(keys: &[char]) -> Result<LookupResult<char>, String>
lookup_chars(cell, keys) ==
    LET map == OnceLock_get(cell)
    IN IF ~map.some THEN Err(NotInitialized)
       ELSE Ok(lookup_loop(map.val, [map |-> EmptyMap, vec |-> <<>>],
                           [i \in 1..Len(keys) |-> as_u32(keys[i])]))

\* s.chars().collect::<Vec<char>>(): the sequence that stands for the &str here
chars(s) == s

\* pub fn lookup_chars_map_for_str(s: &str)
lookup_chars_map_for_str(cell, s) == lookup_chars_map(cell, chars(s))

\* pub fn lookup_chars_vec_for_str(s: &str)
lookup_chars_vec_for_str(cell, s) == lookup_chars_vec(cell, chars(s))

\* pub fn lookup_chars_for_str(s: &str)
lookup_chars_for_str(cell, s) == lookup_chars(cell, chars(s))

----------------------------------------------------------------------------
(* Sentence Renderer (lib.rs:222-237).                                     *)

\* the closure of to_pinyin_string for one char c:
\* map.get(&(c as u32)).and_then(|p_vec| p_vec.get(0)).map_or(c.to_string(), ..)
pinyin_unit(map, c) ==
    LET p_vec == Get(map, as_u32(c))
        p == IF p_vec.some /\ Len(p_vec.val) >= 1 THEN Some(p_vec.val[1]) ELSE None
    IN IF p.some THEN p.val ELSE <<c>>

RECURSIVE join_rest(_, _)
\* the tail of [String]::join: separator and item, for each item after the first
join_rest(items, separator) ==
    IF items = <<>> THEN <<>>
    ELSE separator \o Head(items) \o join_rest(Tail(items), separator)

\* a join that also puts the separator after the last item
join_trailing(items, separator) ==
    IF items = <<>> THEN <<>>
    ELSE Head(items) \o join_rest(Tail(items), separator) \o separator

\* [String]::join(separator)
join(items, separator) ==
    IF items = <<>> THEN <<>> ELSE Head(items) \o join_rest(Tail(items), separator)

\* pub fn to_pinyin_string(text: &str, separator: &str) -> Result<String, String>
to_pinyin_string(cell, text, separator) ==
    LET map == OnceLock_get(cell)
    IN IF ~map.some THEN Err(NotInitialized)
       ELSE Ok(join([i \in 1..Len(chars(text)) |-> pinyin_unit(map.val, chars(text)[i])],
                    separator))

----------------------------------------------------------------------------
(* Inputs of the calls.                                                    *)

\* u32 keys: U+4F60 and U+597D (in the default data), U+3007, 'A', and
\* 0x110000, which is no Unicode code point
Keys == {20320, 22909, 12295, 65, 1114112}

\* the keys that are chars
Chars == {k \in Keys : IsChar(k)}

KeyBatches == SeqUpTo(Keys, MaxKeys)
CharBatches == SeqUpTo(Chars, MaxKeys)

\* separators: "", " ", "-", ", "
Separators == {<<>>, <<32>>, <<45>>, <<44, 32>>}

\* a caller's table: U+4F60 -> ["ni3"], U+3007 -> [] (an empty candidate list)
CallerEntries == << <<20320, << <<110, 105, 51>> >> >>, <<12295, <<>> >> >>

\* a table with a key above 0x10FFFF: 0x110000 -> ["x"], U+4F60 -> ["nǐ"]
OutOfRangeEntries == << <<1114112, << <<120>> >> >>, <<20320, << <<110, 464>> >> >> >>

\* the proper prefixes of a buffer
Truncations(b) == {SubSeq(b, 1, k) : k \in 0..(Len(b) - 1)}

\* byte buffers handed to init_map: encoded tables (one of them with bytes
\* after the table), truncated buffers, a reserved integer marker, a map
\* length without its entries, a string that is not UTF-8
Buffers ==
    {DefaultBytes,
     encode_to_vec(<<DefaultEntries[2], DefaultEntries[1]>>),
     encode_to_vec(CallerEntries) \o <<0>>,
     encode_to_vec(OutOfRangeEntries),
     save_to_vec(OutOfRangeEntries).val,
     <<255>>,
     <<1, 253, 1, 0, 0, 0, 0, 0, 0, 0, 0>>,
     <<1, 65, 1, 2, 195, 40>>}
    \cup Truncations(DefaultBytes)

InitArgs == {None} \cup {Some(b) : b \in Buffers}

----------------------------------------------------------------------------
(* Spec: the library called by one thread, one call per step.              *)

\* no call made yet
NoCall == [op |-> "none"]

\* the variables of the other specifications, at rest
ConcIdle == th = <<>>
ToneIdle == tpc = "idle" /\ tin = <<>> /\ tcur = <<>>

Init ==
    /\ default_data \in BOOLEAN
    /\ UNICODE_TO_PINYIN = None         \* OnceLock::new()
    /\ ret = NoCall
    /\ ConcIdle
    /\ ToneIdle

\* the record of a call
Call(op, arg, res) == [op |-> op, arg |-> arg, res |-> res]

\* what a lookup or render call leaves alone: the store is only read
ReadOnly == UNCHANGED <<default_data, UNICODE_TO_PINYIN, th, tpc, tin, tcur>>

\* the caller is between two calls
Idle == ret = NoCall

\* the caller takes the result of its call and goes on (main.rs:46-69)
Caller_continues ==
    /\ ret /= NoCall
    /\ ret' = NoCall
    /\ ReadOnly

Call_init_map ==
    /\ Idle
    /\ \E a \in InitArgs :
        \E r \in {init_map(default_data, UNICODE_TO_PINYIN, a)} :
            /\ UNICODE_TO_PINYIN' = r.cell
            /\ ret' = Call("init_map", a, r.res)
            /\ UNCHANGED <<default_data, th, tpc, tin, tcur>>

Call_lookup_unicodes_map ==
    /\ Idle
    /\ \E ks \in KeyBatches :
        /\ ret' = Call("lookup_unicodes_map", ks, lookup_unicodes_map(UNICODE_TO_PINYIN, ks))
        /\ ReadOnly

Call_lookup_unicodes_vec ==
    /\ Idle
    /\ \E ks \in KeyBatches :
        /\ ret' = Call("lookup_unicodes_vec", ks, lookup_unicodes_vec(UNICODE_TO_PINYIN, ks))
        /\ ReadOnly

Call_lookup_unicodes ==
    /\ Idle
    /\ \E ks \in KeyBatches :
        /\ ret' = Call("lookup_unicodes", ks, lookup_unicodes(UNICODE_TO_PINYIN, ks))
        /\ ReadOnly

Call_lookup_chars_map ==
    /\ Idle
    /\ \E ks \in CharBatches :
        /\ ret' = Call("lookup_chars_map", ks, lookup_chars_map(UNICODE_TO_PINYIN, ks))
        /\ ReadOnly

Call_lookup_chars_vec ==
    /\ Idle
    /\ \E ks \in CharBatches :
        /\ ret' = Call("lookup_chars_vec", ks, lookup_chars_vec(UNICODE_TO_PINYIN, ks))
        /\ ReadOnly

Call_lookup_chars ==
    /\ Idle
    /\ \E ks \in CharBatches :
        /\ ret' = Call("lookup_chars", ks, lookup_chars(UNICODE_TO_PINYIN, ks))
        /\ ReadOnly

Call_lookup_chars_map_for_str ==
    /\ Idle
    /\ \E s \in CharBatches :
        /\ ret' = Call("lookup_chars_map_for_str", s,
                lookup_chars_map_for_str(UNICODE_TO_PINYIN, s))
        /\ ReadOnly

Call_lookup_chars_vec_for_str ==
    /\ Idle
    /\ \E s \in CharBatches :
        /\ ret' = Call("lookup_chars_vec_for_str", s,
                lookup_chars_vec_for_str(UNICODE_TO_PINYIN, s))
        /\ ReadOnly

Call_lookup_chars_for_str ==
    /\ Idle
    /\ \E s \in CharBatches :
        /\ ret' = Call("lookup_chars_for_str", s, lookup_chars_for_str(UNICODE_TO_PINYIN, s))
        /\ ReadOnly

Call_to_pinyin_string ==
    /\ Idle
    /\ \E text \in CharBatches, separator \in Separators :
        /\ ret' = Call("to_pinyin_string", [text |-> text, separator |-> separator],
                to_pinyin_string(UNICODE_TO_PINYIN, text, separator))
        /\ ReadOnly

Next ==
    \/ Caller_continues
    \/ Call_init_map
    \/ Call_lookup_unicodes_map
    \/ Call_lookup_unicodes_vec
    \/ Call_lookup_unicodes
    \/ Call_lookup_chars_map
    \/ Call_lookup_chars_vec
    \/ Call_lookup_chars
    \/ Call_lookup_chars_map_for_str
    \/ Call_lookup_chars_vec_for_str
    \/ Call_lookup_chars_for_str
    \/ Call_to_pinyin_string

Spec == Init /\ [][Next]_vars

----------------------------------------------------------------------------
(* Properties of the Mapping Store, the Lookup Service and the Sentence    *)
(* Renderer, checked under Spec.                                           *)

VecOps == {"lookup_unicodes_vec", "lookup_chars_vec", "lookup_chars_vec_for_str"}
MapOps == {"lookup_unicodes_map", "lookup_chars_map", "lookup_chars_map_for_str"}
BothOps == {"lookup_unicodes", "lookup_chars", "lookup_chars_for_str"}
ReadOps == VecOps \cup MapOps \cup BothOps \cup {"to_pinyin_string"}

\* the step is a second init_map call: the store is set and init_map returns
SecondInit == UNICODE_TO_PINYIN.some /\ ret'.op = "init_map"

\* C1 as stated: a second init_map call, whatever its argument, fails with
\* AlreadyInitialized and leaves the installed table as it was.
C1_SecondInitIsAlreadyInitialized ==
    [][SecondInit =>
          /\ ret'.res = Err(AlreadyInitialized)
          /\ UNICODE_TO_PINYIN' = UNICODE_TO_PINYIN]_vars

\* C1 as amended: a second init_map call fails and leaves the installed table
\* as it was; its error is AlreadyInitialized when its data loads (always with
\* the embedded default data, otherwise when the argument is a well-formed
\* buffer), MissingSource when no buffer is given and none is embedded, and
\* the decode error when the buffer given is malformed.
C1_SecondInitFails ==
    [][SecondInit =>
          /\ UNICODE_TO_PINYIN' = UNICODE_TO_PINYIN
          /\ ~ret'.res.ok
          /\ IF default_data THEN ret'.res.err = AlreadyInitialized
             ELSE IF ~ret'.arg.some THEN ret'.res.err = MissingSource
             ELSE IF load_from_bytes(ret'.arg.val).ok
                  THEN ret'.res.err = AlreadyInitialized
             ELSE ret'.res.err \in MalformedResource]_vars

\* C1 witness: in a build without the default data, init_map was called with a
\* well-formed buffer on a set store and returned AlreadyInitialized.
C1_Witness ==
    /\ ~default_data
    /\ UNICODE_TO_PINYIN.some
    /\ ret.op = "init_map"
    /\ ret.arg.some
    /\ ret.res = Err(AlreadyInitialized)
    /\ UNICODE_TO_PINYIN.val /= load_from_bytes(ret.arg.val).val.mappings

\* C2: a lookup or to_pinyin_string call returns NotInitialized exactly when
\* the store is not set, never fails once it is set, and leaves the store as
\* it was; the store is set by a successful init_map call and by nothing else,
\* and a failed init_map call leaves it as it was.
C2_NotInitializedIffNoInit ==
    [][/\ ret'.op \in ReadOps =>
            /\ UNICODE_TO_PINYIN' = UNICODE_TO_PINYIN
            /\ (ret'.res = Err(NotInitialized)) <=> ~UNICODE_TO_PINYIN.some
            /\ UNICODE_TO_PINYIN.some => ret'.res.ok
       /\ UNICODE_TO_PINYIN' /= UNICODE_TO_PINYIN =>
            /\ ~UNICODE_TO_PINYIN.some
            /\ UNICODE_TO_PINYIN'.some
            /\ ret'.op = "init_map"
            /\ ret'.res.ok
       /\ (ret'.op = "init_map" /\ ret'.res.ok) =>
            /\ ~UNICODE_TO_PINYIN.some
            /\ UNICODE_TO_PINYIN'.some]_vars

\* C2 witness: a lookup on a store that is not set returned NotInitialized.
C2_Witness ==
    /\ ~UNICODE_TO_PINYIN.some
    /\ ret.op = "lookup_chars_vec"
    /\ Len(ret.arg) = MaxKeys
    /\ ret.res = Err(NotInitialized)

\* C4 as stated: every key of the installed table is at most 0x10FFFF.
C4_KeysInRange ==
    UNICODE_TO_PINYIN.some =>
        \A k \in DOMAIN UNICODE_TO_PINYIN.val : k <= MaxCodePoint

\* the result the claims give for key k on table T
Entry(T, k) ==
    IF k \in DOMAIN T THEN [some |-> TRUE, val |-> T[k]] ELSE [some |-> FALSE]

\* vec is the positional result for the keys ks on table T
VecShape(T, ks, vec) ==
    /\ Len(vec) = Len(ks)
    /\ \A i \in 1..Len(ks) : vec[i] = Entry(T, ks[i])

\* map is the keyed result for the keys ks on table T
MapShape(T, ks, map) ==
    /\ DOMAIN map = {ks[i] : i \in 1..Len(ks)}
    /\ \A k \in DOMAIN map : map[k] = Entry(T, k)

\* C5: on a set store the vec result has one entry per position, Some of the
\* candidates or None; the map result has the distinct keys as its domain,
\* each with Some or None; and the two halves of lookup_unicodes and
\* lookup_chars agree position by position.
C5_LookupShapes ==
    (UNICODE_TO_PINYIN.some /\ ret.op \in VecOps \cup MapOps \cup BothOps) =>
        /\ ret.res.ok
        /\ ret.op \in VecOps => VecShape(UNICODE_TO_PINYIN.val, ret.arg, ret.res.val)
        /\ ret.op \in MapOps => MapShape(UNICODE_TO_PINYIN.val, ret.arg, ret.res.val)
        /\ ret.op \in BothOps =>
            /\ VecShape(UNICODE_TO_PINYIN.val, ret.arg, ret.res.val.vec)
            /\ MapShape(UNICODE_TO_PINYIN.val, ret.arg, ret.res.val.map)
            /\ \A i \in 1..Len(ret.arg) :
                   ret.res.val.vec[i] = ret.res.val.map[ret.arg[i]]

\* C5 witness: lookup_unicodes_map returned for a batch that holds a key
\* twice and a key without an entry.
C5_Witness ==
    /\ UNICODE_TO_PINYIN.some
    /\ ret.op = "lookup_unicodes_map"
    /\ ret.arg = <<20320, 65, 20320>>
    /\ ret.res.ok
    /\ Cardinality(DOMAIN ret.res.val) = 2
    /\ ret.res.val[20320].some
    /\ ~ret.res.val[65].some

\* the unit the renderer emits for char c on table T
Unit(T, c) == IF c \in DOMAIN T /\ T[c] /= <<>> THEN T[c][1] ELSE <<c>>

RECURSIVE Joined(_, _)
\* the units joined by sep, none before the first or after the last
Joined(units, sep) ==
    IF Len(units) = 0 THEN <<>>
    ELSE IF Len(units) = 1 THEN units[1]
    ELSE Joined(SubSeq(units, 1, Len(units) - 1), sep) \o sep \o units[Len(units)]

\* C6: on a set store to_pinyin_string returns the units of the chars joined
\* by the separator, the unit of a char being its first candidate, or the
\* char itself when it has no entry or an empty candidate list; the empty
\* text gives the empty string.
C6_RenderJoinsUnits ==
    (UNICODE_TO_PINYIN.some /\ ret.op = "to_pinyin_string") =>
        /\ ret.res.ok
        /\ ret.res.val =
              Joined([i \in 1..Len(ret.arg.text) |->
                          Unit(UNICODE_TO_PINYIN.val, ret.arg.text[i])],
                     ret.arg.separator)
        /\ ret.arg.text = <<>> => ret.res.val = <<>>

\* C6 witness: "ni3, 〇, A" was rendered from a char with candidates, a char
\* with an empty candidate list and a char without an entry, joined by ", ".
C6_Witness ==
    /\ UNICODE_TO_PINYIN.some
    /\ ret.op = "to_pinyin_string"
    /\ ret.arg = [text |-> <<20320, 12295, 65>>, separator |-> <<44, 32>>]
    /\ ret.res = Ok(<<110, 105, 51, 44, 32, 12295, 44, 32, 65>>)

----------------------------------------------------------------------------
(* SpecTone: the transcoders applied to a batch of tokens, and then once    *)
(* more to what the first call returned.                                   *)

\* lib.rs:359: "ni3", "ha3o"
Input1 ==
    << <<110, 105, 51>>,
       <<104, 97, 51, 111>> >>

\* lib.rs:364: "ma1", "ma2", "ma3", "ma4", "nv3", "lv4"
Input2 ==
    << <<109, 97, 49>>,
       <<109, 97, 50>>,
       <<109, 97, 51>>,
       <<109, 97, 52>>,
       <<110, 118, 51>>,
       <<108, 118, 52>> >>

\* lib.rs:370: "pin1yin1", "test5", "a", "b0"
Input3 ==
    << <<112, 105, 110, 49, 121, 105, 110, 49>>,
       <<116, 101, 115, 116, 53>>,
       <<97>>,
       <<98, 48>> >>

\* lib.rs:375: "wo3", "shi4", "xue2sheng", "ni2hao3"
Input4 ==
    << <<119, 111, 51>>,
       <<115, 104, 105, 52>>,
       <<120, 117, 101, 50, 115, 104, 101, 110, 103>>,
       <<110, 105, 50, 104, 97, 111, 51>> >>

\* lib.rs:380: 
Input5 == <<>>

\* lib.rs:385: "", "hao3", ""
Input6 ==
    << <<>>,
       <<104, 97, 111, 51>>,
       <<>> >>

\* lib.rs:390: "x1", "z4"
Input7 ==
    << <<120, 49>>,
       <<122, 52>> >>

\* lib.rs:395: "yu1", "yu2", "yu3", "yu4", "abcyu4o", "abcu4o"
Input8 ==
    << <<121, 117, 49>>,
       <<121, 117, 50>>,
       <<121, 117, 51>>,
       <<121, 117, 52>>,
       <<97, 98, 99, 121, 117, 52, 111>>,
       <<97, 98, 99, 117, 52, 111>> >>

\* main.rs:65: "xiāng", "zhǐ", "lǘ"
MainDiacritic ==
    << <<120, 105, 257, 110, 103>>,
       <<122, 104, 464>>,
       <<108, 472>> >>

\* main.rs:68: "xia1ng", "zhi3", "lü2", "jiv3"
MainNumbered ==
    << <<120, 105, 97, 49, 110, 103>>,
       <<122, 104, 105, 51>>,
       <<108, 252, 50>>,
       <<106, 105, 118, 51>> >>

TestBatches ==
    {Input1, Input2, Input3, Input4, Input5, Input6, Input7, Input8,
     MainDiacritic, MainNumbered}

\* plain letters and tone digits: y, u, a and 1..4
NumAlphabet == {121, 117, 97} \cup 49..52

\* digit-free text: the letters y, u, v, n, a and the diacritic chars
DiaAlphabet == {121, 117, 118, 110, 97} \cup DOMAIN DIACRITIC_TO_LETTER

\* the tokens handed to the transcoders one at a time
Tokens ==
    SeqUpTo(NumAlphabet, MaxTokLen)
    \cup SeqUpTo(DiaAlphabet, MaxDiaLen)
    \cup DOMAIN LETTER_TO_DIACRITIC

Batches == {<<t>> : t \in Tokens} \cup TestBatches

ToNumber == "diacritic_to_tone_plus_number"
ToDiacritic == "tone_plus_number_to_diacritic"

InitTone ==
    /\ default_data = TRUE
    /\ UNICODE_TO_PINYIN = None
    /\ ret = NoCall
    /\ ConcIdle
    /\ tpc = <<>>
    /\ tin \in Batches
    /\ tcur = tin

\* a call is made on the input, and one more on what that call returned
MayCall == Len(tpc) <= 1

Call_diacritic_to_tone_plus_number ==
    /\ MayCall
    /\ tcur' = diacritic_to_tone_plus_number(tcur)
    /\ tpc' = Append(tpc, ToNumber)
    /\ UNCHANGED <<default_data, UNICODE_TO_PINYIN, ret, th, tin>>

Call_tone_plus_number_to_diacritic ==
    /\ MayCall
    /\ tcur' = tone_plus_number_to_diacritic(tcur)
    /\ tpc' = Append(tpc, ToDiacritic)
    /\ UNCHANGED <<default_data, UNICODE_TO_PINYIN, ret, th, tin>>

NextTone ==
    \/ Call_diacritic_to_tone_plus_number
    \/ Call_tone_plus_number_to_diacritic

SpecTone == InitTone /\ [][NextTone]_vars

----------------------------------------------------------------------------
(* Claims about the transcoders (SpecTone).                                *)

IsDigitFree(t) == \A i \in 1..Len(t) : ~is_ascii_digit(t[i])

ToneDigits == 49..52

\* the u and the u-umlaut diacritics, by tone 1..4
UTone == <<363, 250, 468, 249>>        \* ū ú ǔ ù
UmlautTone == <<470, 472, 474, 476>>   \* ǖ ǘ ǚ ǜ

NiHaoTranscribedOnO == << <<110, 464>>, <<104, 97, 466>> >>   \* nǐ, haǒ
NiHaoTranscribedOnA == << <<110, 464>>, <<104, 462, 111>> >>  \* nǐ, hǎo

\* C7 as stated: tone_plus_number_to_diacritic(["ni3", "ha3o"]) returns
\* ["nǐ", "haǒ"], the tone of "ha3o" on the "o".
C7_NiHaoOnO ==
    (tin = Input1 /\ tpc = <<ToDiacritic>>) => tcur = NiHaoTranscribedOnO

\* C7, amended: tone_plus_number_to_diacritic(["ni3", "ha3o"]) returns
\* ["nǐ", "hǎo"]: the tone digit of "ha3o" marks the "a" that immediately
\* precedes it, and the "o" after the digit is copied unchanged.
C7_NiHaoOnA ==
    (tin = Input1 /\ tpc = <<ToDiacritic>>) => tcur = NiHaoTranscribedOnA

C7_Witness ==
    /\ tin = Input1
    /\ tpc = <<ToDiacritic>>
    /\ tcur[2][2] = 462
    /\ tcur[2][3] = 111

\* the position of the last tone digit of t when what follows it is
\* digit-free, as a set (empty when t has no such digit)
LastToneDigit(t) ==
    {i \in 1..Len(t) : /\ t[i] \in ToneDigits
                       /\ IsDigitFree(SubSeq(t, i + 1, Len(t)))}

YuForm(t, i) == i >= 3 /\ t[i - 2] = 121 /\ t[i - 1] = 117

UForm(t, i) == i >= 3 /\ t[i - 2] # 121 /\ t[i - 1] = 117

C8_Token(t, out) ==
    \A i \in LastToneDigit(t) :
        /\ YuForm(t, i) =>
              /\ out = replace_numbered_pinyin(SubSeq(t, 1, i - 3))
                         \o <<UmlautTone[t[i] - 48]>>
                         \o SubSeq(t, i + 1, Len(t))
              /\ out # replace_numbered_pinyin(SubSeq(t, 1, i - 2))
                         \o <<UTone[t[i] - 48]>>
                         \o SubSeq(t, i + 1, Len(t))
        /\ UForm(t, i) =>
              out = replace_numbered_pinyin(SubSeq(t, 1, i - 2))
                      \o <<UTone[t[i] - 48]>>
                      \o SubSeq(t, i + 1, Len(t))

\* C8: a token p + "yu" + d + s (d a tone digit 1..4, s digit-free) is
\* converted to convert(p) + the u-umlaut diacritic of tone d + s, and a
\* token p + c + "u" + d + s with c other than "y" to convert(p + c) + the
\* u diacritic of tone d + s: the three-char key wins over the two-char one.
C8_YuBeforeU ==
    tpc = <<ToDiacritic>> =>
        /\ Len(tcur) = Len(tin)
        /\ \A j \in 1..Len(tin) : C8_Token(tin[j], tcur[j])

C8_Witness ==
    /\ tin = Input8
    /\ tpc = <<ToDiacritic>>
    /\ tcur[5] = <<97, 98, 99, 476, 111>>
    /\ tcur[6] = <<97, 98, 99, 249, 111>>

\* the canonical numbered spelling of a reverse-table key: "yu" + d and
\* "ü" + d are spelled "v" + d, every other key is its own spelling
Canonical(x) ==
    IF Len(x) = 3 \/ x[1] = 252 THEN <<118, x[Len(x)]>> ELSE x

\* C9: every key x of the reverse table is converted to the one-char
\* token of its diacritic, and converting that back gives the canonical
\* numbered form of x; the forward table inverts the reverse table on the
\* forward table's 28 keys.
C9_TablesInverse ==
    /\ \A x \in DOMAIN LETTER_TO_DIACRITIC :
           tin = <<x>> =>
               /\ LETTER_TO_DIACRITIC[x] \in DOMAIN DIACRITIC_TO_LETTER
               /\ DIACRITIC_TO_LETTER[LETTER_TO_DIACRITIC[x]] = Canonical(x)
               /\ tpc = <<ToDiacritic>> => tcur = << <<LETTER_TO_DIACRITIC[x]>> >>
               /\ tpc = <<ToDiacritic, ToNumber>> => tcur = <<Canonical(x)>>
    /\ \A c \in DOMAIN DIACRITIC_TO_LETTER :
           tin = << <<c>> >> =>
               /\ DIACRITIC_TO_LETTER[c] \in DOMAIN LETTER_TO_DIACRITIC
               /\ LETTER_TO_DIACRITIC[DIACRITIC_TO_LETTER[c]] = c

C9_Witness ==
    /\ tin = << <<121, 117, 49>> >>
    /\ tpc = <<ToDiacritic, ToNumber>>
    /\ tcur = << <<118, 49>> >>

\* C10 as stated: for every digit-free token t,
\* tone_plus_number_to_diacritic(diacritic_to_tone_plus_number([t])) is [t].
C10_RoundTripIdentity ==
    (tpc = <<ToNumber, ToDiacritic>> /\ \A j \in 1..Len(tin) : IsDigitFree(tin[j]))
        => tcur = tin

IsUTone(c) == \E d \in 1..4 : UTone[d] = c

ToneOfU(c) == CHOOSE d \in 1..4 : UTone[d] = c

\* t with every "y" + u-diacritic pair replaced by the u-umlaut diacritic
\* of the same tone
RECURSIVE Collapse(_)
Collapse(t) ==
    IF t = <<>> THEN <<>>
    ELSE IF Len(t) >= 2 /\ t[1] = 121 /\ IsUTone(t[2])
    THEN <<UmlautTone[ToneOfU(t[2])]>> \o Collapse(SubSeq(t, 3, Len(t)))
    ELSE <<t[1]>> \o Collapse(Tail(t))

\* C10, amended: for every digit-free token t the round trip returns t with
\* each "y" followed by a u-diacritic (ū ú ǔ ù) replaced by the single
\* u-umlaut diacritic of the same tone (ǖ ǘ ǚ ǜ); it returns t itself
\* exactly when no u-diacritic immediately follows a "y".
C10_RoundTripCollapsesYu ==
    (tpc = <<ToNumber, ToDiacritic>> /\ \A j \in 1..Len(tin) : IsDigitFree(tin[j]))
        => /\ Len(tcur) = Len(tin)
           /\ \A j \in 1..Len(tin) : tcur[j] = Collapse(tin[j])
           /\ (tcur = tin) <=>
                 (\A j \in 1..Len(tin) : \A i \in 1..(Len(tin[j]) - 1) :
                      ~(tin[j][i] = 121 /\ IsUTone(tin[j][i + 1])))

C10_Witness ==
    /\ tin = << <<121, 468>> >>
    /\ tpc = <<ToNumber, ToDiacritic>>
    /\ tcur = << <<474>> >>

----------------------------------------------------------------------------
(* SpecConc: NInit threads each inside one init_map call and one thread    *)
(* inside lookup_unicodes, on a store that starts uninitialized.  A step   *)
(* is one access to the shared cell, or the thread-local work before it.   *)

CallerBytes == encode_to_vec(CallerEntries)

\* what the racing init_map calls are given
ConcArgs == {None, Some(DefaultBytes), Some(CallerBytes), Some(<<255>>)}

\* what the racing lookup_unicodes call is given
ConcKeyBatches == {<<>>, <<20320, 22909>>, <<12295, 20320, 20320>>}

InitThreads == 1..NInit

EmptyResult == [map |-> EmptyMap, vec |-> <<>>]

InitConc ==
    /\ default_data \in BOOLEAN
    /\ UNICODE_TO_PINYIN = None
    /\ ret = NoCall
    /\ ToneIdle
    /\ \E args \in [InitThreads -> ConcArgs] : \E keys \in ConcKeyBatches :
           th = [init |-> [i \in InitThreads |->
                              [pc |-> "load", arg |-> args[i],
                               unicode_mapping |-> NoCall, res |-> NoCall]],
                 lookup |-> [pc |-> "get", keys |-> keys, rest |-> keys,
                             acc |-> EmptyResult, res |-> NoCall]]

StoreOnly == UNCHANGED <<default_data, ret, tpc, tin, tcur>>

\* lib.rs:105-116: thread i loads its mapping; an error returns at once
T_init_map_load(i) ==
    /\ th.init[i].pc = "load"
    /\ \E m \in {init_map_load(default_data, th.init[i].arg)} :
           th' = [th EXCEPT !.init[i].pc = IF m.ok THEN "set" ELSE "done",
                            !.init[i].unicode_mapping = m,
                            !.init[i].res = IF m.ok THEN NoCall ELSE m]
    /\ UNCHANGED UNICODE_TO_PINYIN
    /\ StoreOnly

\* lib.rs:118-122: thread i calls OnceLock::set, one atomic step on the cell
T_init_map_set(i) ==
    /\ th.init[i].pc = "set"
    /\ \E r \in {init_map_set(UNICODE_TO_PINYIN, th.init[i].unicode_mapping)} :
           /\ UNICODE_TO_PINYIN' = r.cell
           /\ th' = [th EXCEPT !.init[i].pc = "done", !.init[i].res = r.res]
    /\ StoreOnly

\* lib.rs:149-153: UNICODE_TO_PINYIN.get().ok_or(..)?
T_lookup_unicodes_get ==
    /\ th.lookup.pc = "get"
    /\ th' = IF OnceLock_get(UNICODE_TO_PINYIN).some
             THEN [th EXCEPT !.lookup.pc = "loop"]
             ELSE [th EXCEPT !.lookup.pc = "done",
                             !.lookup.res = Err(NotInitialized)]
    /\ UNCHANGED UNICODE_TO_PINYIN
    /\ StoreOnly

\* lib.rs:155-159: one iteration, reading through the reference get() gave
T_lookup_unicodes_iter ==
    /\ th.lookup.pc = "loop"
    /\ th.lookup.rest # <<>>
    /\ th' = [th EXCEPT !.lookup.acc =
                            lookup_loop_step(UNICODE_TO_PINYIN.val,
                                             th.lookup.acc,
                                             Head(th.lookup.rest)),
                        !.lookup.rest = Tail(th.lookup.rest)]
    /\ UNCHANGED UNICODE_TO_PINYIN
    /\ StoreOnly

\* lib.rs:161-164: Ok(LookupResult { .. })
T_lookup_unicodes_return ==
    /\ th.lookup.pc = "loop"
    /\ th.lookup.rest = <<>>
    /\ th' = [th EXCEPT !.lookup.pc = "done",
                        !.lookup.res = Ok(th.lookup.acc)]
    /\ UNCHANGED UNICODE_TO_PINYIN
    /\ StoreOnly

NextConc ==
    \/ \E i \in InitThreads : T_init_map_load(i)
    \/ \E i \in InitThreads : T_init_map_set(i)
    \/ T_lookup_unicodes_get
    \/ T_lookup_unicodes_iter
    \/ T_lookup_unicodes_return

SpecConc == InitConc /\ [][NextConc]_vars

----------------------------------------------------------------------------
(* Claims about racing calls (SpecConc).                                   *)

\* the data of init thread i is well-formed: its load succeeds
WellFormed(i) == init_map_load(default_data, th.init[i].arg).ok

\* the table init thread i supplies
Supplied(i) == init_map_load(default_data, th.init[i].arg).val.mappings

Winners == {i \in InitThreads : th.init[i].pc = "done" /\ th.init[i].res.ok}

AllReturned == \A i \in InitThreads : th.init[i].pc = "done"

C3_OneWinner ==
    (\A i \in InitThreads : WellFormed(i)) =>
        /\ Cardinality(Winners) <= 1
        /\ AllReturned =>
              /\ Cardinality(Winners) = 1
              /\ \A i \in InitThreads \ Winners :
                     th.init[i].res = Err(AlreadyInitialized)

C3_StoreIsWinners ==
    /\ \A i \in Winners : UNICODE_TO_PINYIN = Some(Supplied(i))
    /\ UNICODE_TO_PINYIN.some => Winners # {}

C3_LookupFromInstalled ==
    /\ th.lookup.pc = "loop" =>
          /\ UNICODE_TO_PINYIN.some
          /\ th.lookup.acc =
                lookup_loop(UNICODE_TO_PINYIN.val, EmptyResult,
                            SubSeq(th.lookup.keys, 1,
                                   Len(th.lookup.keys) - Len(th.lookup.rest)))
    /\ th.lookup.pc = "done" =>
          \/ th.lookup.res = Err(NotInitialized)
          \/ /\ UNICODE_TO_PINYIN.some
             /\ th.lookup.res = lookup_unicodes(UNICODE_TO_PINYIN, th.lookup.keys)

\* C3: when init_map calls with well-formed data race on an uninitialized
\* store, exactly one returns ok and the others return an error; the stored
\* table is the one the winner supplied and never changes once installed;
\* a racing lookup_unicodes returns NotInitialized or answers every key of
\* its batch from that one installed table.
C3_FirstWriterWins ==
    /\ [](C3_OneWinner /\ C3_StoreIsWinners /\ C3_LookupFromInstalled)
    /\ [][UNICODE_TO_PINYIN.some => UNICODE_TO_PINYIN' = UNICODE_TO_PINYIN]_vars

C3_Witness ==
    /\ ~default_data
    /\ AllReturned
    /\ th.init[1].arg = Some(DefaultBytes)
    /\ th.init[2].arg = Some(CallerBytes)
    /\ Winners = {2}
    /\ th.init[1].res = Err(AlreadyInitialized)
    /\ th.lookup.keys = <<12295, 20320, 20320>>
    /\ th.lookup.pc = "done"
    /\ th.lookup.res.ok
    /\ th.lookup.res.val.vec[2] = Some(CallerEntries[1][2])

============================================================================
